---------------------------- MODULE Spec2Model ----------------------------
(***************************************************************************)
(* sk-pkg/logger: an option-configured facade (Manager) over a Zap logger. *)
(* The model covers construction (New and its options), the level gate     *)
(* (zap.AtomicLevel shared by the Manager and its core), trace-id          *)
(* enrichment from the call's context, the leveled calls, SetLevel and     *)
(* Sync, sequentially (Spec) and under concurrent callers (SpecConc), the  *)
(* hooks of Panic and Fatal (SpecTerm), the rotating file over time        *)
(* (SpecFile) and the records of the Manager and of its handles (SpecRec). *)
(***************************************************************************)
EXTENDS Integers, Sequences, FiniteSets, TLC

(***************************************************************************)
(* Bounds of the model.                                                    *)
(***************************************************************************)
\* longest option list handed to New
MaxOpts == 2
\* most lines a stream holds in the sequential specification
MaxLog == 2
\* handles obtained from Named and With
MaxHandles == 2
\* leveled calls each concurrent caller makes
MaxCalls == 2
\* the hours the wall clock advances in all
MaxHours == 48

(***************************************************************************)
(* Severities (logger.go:17-25) and the package defaults (logger.go:28-34).*)
(***************************************************************************)
DebugLevel == -1
InfoLevel == 0
WarnLevel == 1
ErrorLevel == 2
DPanicLevel == 3
PanicLevel == 4
FatalLevel == 5

Levels == DebugLevel..FatalLevel

defaultDriver == "stdout"
defaultLevel == InfoLevel
defaultCallerSkip == 1
defaultStacktraceLevel == DPanicLevel
TraceIDKey == "trace_id"
\* 7 * 24 * time.Hour and 24 * time.Hour, in hours
defaultMaxAge == 168
defaultRotationTime == 24

\* a nil *Manager, a nil zapcore.Core and a nil error
NilManager == [nil |-> TRUE]
NilCore == [nil |-> TRUE]
NoErr == [msg |-> "", arg |-> ""]

(***************************************************************************)
(* Options.  An Option is a closure over one argument that assigns one     *)
(* field of the option struct; it is modelled as the pair (k, argument)    *)
(* and applied by ApplyOption.                                             *)
(***************************************************************************)
LevelNames == {"debug", "info", "warn", "error", "dpanic", "panic", "fatal"}

\* the switch of WithLevel / WithStacktraceLevel
LevelOfName(name) ==
    CASE name = "debug"  -> DebugLevel
      [] name = "info"   -> InfoLevel
      [] name = "warn"   -> WarnLevel
      [] name = "error"  -> ErrorLevel
      [] name = "dpanic" -> DPanicLevel
      [] name = "panic"  -> PanicLevel
      [] name = "fatal"  -> FatalLevel

Opt(k, s, n, b) == [k |-> k, s |-> s, n |-> n, b |-> b]
WithDriver(driver) == Opt("driver", driver, 0, FALSE)
WithLevel(level) == Opt("level", level, 0, FALSE)
WithLogPath(path) == Opt("logPath", path, 0, FALSE)
WithEncoderConfig(config) == Opt("encoderConfig", config, 0, FALSE)
WithCallerSkip(skip) == Opt("callerSkip", "", skip, FALSE)
WithMaxAge(maxAge) == Opt("maxAge", "", maxAge, FALSE)
WithRotationTime(rotationTime) == Opt("rotationTime", "", rotationTime, FALSE)
WithColor(useColor) == Opt("useColor", "", 0, useColor)
WithStacktraceLevel(level) == Opt("stacktraceLevel", level, 0, FALSE)

\* mutant of DefaultOption: New starts at level debug with color on
DefaultOptionDebugColor ==
    [driver          |-> defaultDriver,
     level           |-> DebugLevel,
     logPath         |-> "",
     encoderConfig   |-> "DefaultEncoderConfig",
     callerSkip      |-> defaultCallerSkip,
     maxAge          |-> defaultMaxAge,
     rotationTime    |-> defaultRotationTime,
     useColor        |-> TRUE,
     stacktraceLevel |-> defaultStacktraceLevel]

\* the option struct New starts from
DefaultOption ==
    [driver          |-> defaultDriver,
     level           |-> defaultLevel,
     logPath         |-> "",
     encoderConfig   |-> "DefaultEncoderConfig",
     callerSkip      |-> defaultCallerSkip,
     maxAge          |-> defaultMaxAge,
     rotationTime    |-> defaultRotationTime,
     useColor        |-> FALSE,
     stacktraceLevel |-> defaultStacktraceLevel]

\* whether applying the option panics ("invalid log level")
OptionPanics(f) ==
    /\ f.k \in {"level", "stacktraceLevel"}
    /\ f.s \notin LevelNames

\* f(opt) for an option that does not panic
ApplyOption(o, f) ==
    CASE f.k = "driver"          -> [o EXCEPT !.driver = f.s]
      [] f.k = "level"           -> [o EXCEPT !.level = LevelOfName(f.s)]
      [] f.k = "logPath"         -> [o EXCEPT !.logPath = f.s]
      [] f.k = "encoderConfig"   -> [o EXCEPT !.encoderConfig = f.s]
      [] f.k = "callerSkip"      -> [o EXCEPT !.callerSkip = f.n]
      [] f.k = "maxAge"          -> [o EXCEPT !.maxAge = f.n]
      [] f.k = "rotationTime"    -> [o EXCEPT !.rotationTime = f.n]
      [] f.k = "useColor"        -> [o EXCEPT !.useColor = f.b]
      [] f.k = "stacktraceLevel" -> [o EXCEPT !.stacktraceLevel = LevelOfName(f.s)]

\* mutant of ApplyOptions: an option with an invalid level name leaves the
\* setting as it is
RECURSIVE ApplyOptionsDefaulting(_, _)
ApplyOptionsDefaulting(o, opts) ==
    IF opts = <<>> THEN [panic |-> FALSE, opt |-> o]
    ELSE IF OptionPanics(Head(opts)) THEN ApplyOptionsDefaulting(o, Tail(opts))
    ELSE ApplyOptionsDefaulting(ApplyOption(o, Head(opts)), Tail(opts))

\* for _, f := range opts { f(opt) }, up to the first option that panics
RECURSIVE ApplyOptions(_, _)
ApplyOptions(o, opts) ==
    IF opts = <<>> THEN [panic |-> FALSE, opt |-> o]
    ELSE IF OptionPanics(Head(opts)) THEN [panic |-> TRUE, opt |-> o]
    ELSE ApplyOptions(ApplyOption(o, Head(opts)), Tail(opts))

\* log paths whose strftime pattern rotatelogs.New rejects
BadLogPaths == {"/logs/%!"}

\* rotatelogs.New(opt.logPath+"%Y-%m-%d.log", ...) returns an error
RotatelogsNewFails(path) == path \in BadLogPaths

\* the encoder New selects
EncoderOf(opt) == IF opt.useColor THEN "console" ELSE "json"

\* zapcore.NewCore(encoder, sink, level): the core enables a level through
\* the shared zap.AtomicLevel
NewCore(enc, out, cfg) ==
    [enc |-> enc, out |-> out, enab |-> "atomic", encoderConfig |-> cfg]

\* rotatelogs.New(opt.logPath+"%Y-%m-%d.log", WithMaxAge, WithRotationTime)
Rotatelogs(opt) ==
    [pattern      |-> [prefix |-> opt.logPath, date |-> "%Y-%m-%d", suffix |-> ".log"],
     maxAge       |-> opt.maxAge,
     rotationTime |-> opt.rotationTime]

newFileCore(opt, encoder) ==
    IF RotatelogsNewFails(opt.logPath)
    THEN [core |-> NilCore, err |-> [msg |-> "invalid strftime pattern", arg |-> opt.logPath]]
    ELSE [core |-> NewCore(encoder, "file", opt.encoderConfig)
                       @@ [hook |-> Rotatelogs(opt)],
          err  |-> NoErr]

\* zap.New(core, AddCaller, AddCallerSkip, ErrorOutput(stderr), AddStacktrace)
ZapNew(core, opt) ==
    [core        |-> core,
     addCaller   |-> TRUE,
     callerSkip  |-> opt.callerSkip,
     errorOutput |-> "stderr",
     addStack    |-> opt.stacktraceLevel,
     name        |-> <<>>,
     fields      |-> <<>>]

\* zap.New(core) without options: no caller, no stack trace below the levels
\* that exist
ZapNewPlain(core) ==
    [core        |-> core,
     addCaller   |-> FALSE,
     callerSkip  |-> 0,
     errorOutput |-> "stderr",
     addStack    |-> FatalLevel + 1,
     name        |-> <<>>,
     fields      |-> <<>>]

\* observer.New(lvl): a core that records its entries in memory and enables
\* the levels from lvl up, lvl given by its name
ObserverNew(lvl) ==
    [enc |-> "none", out |-> "observed", enab |-> lvl, encoderConfig |-> "none"]

\* &Manager{Zap: zap.New(core)}: the level field is the zero AtomicLevel,
\* whose pointer is nil
Assembled(core) == [Zap |-> ZapNewPlain(core), level |-> "nil"]

NewOK(core, opt) ==
    [outcome |-> "returned",
     mgr     |-> [Zap |-> ZapNew(core, opt), level |-> "atomic"],
     err     |-> NoErr,
     level   |-> opt.level,
     opt     |-> opt]

NewErr(err, opt) ==
    [outcome |-> "returned", mgr |-> NilManager, err |-> err, level |-> opt.level,
     opt |-> opt]

\* mutant of NewFileDriver: the error of newFileCore is dropped
NewFileDriverDropsErr(opt) == NewOK(newFileCore(opt, EncoderOf(opt)).core, opt)

\* the "file" branch of New's switch on the driver
NewFileDriver(opt) ==
    LET fc == newFileCore(opt, EncoderOf(opt))
    IN  IF fc.err # NoErr
        THEN NewErr([msg |-> "failed to create file core", arg |-> fc.err.msg], opt)
        ELSE NewOK(fc.core, opt)

\* mutant of NewUnknownDriver: an unknown driver falls back to stdout
NewUnknownDriverStdout(opt) ==
    NewOK(NewCore(EncoderOf(opt), "stdout", opt.encoderConfig), opt)

\* the default branch of New's switch on the driver
NewUnknownDriver(opt) == NewErr([msg |-> "unknown driver", arg |-> opt.driver], opt)

\* New(opts...): what the call produces.  outcome is "returned" or "panic";
\* level is the initial value of the zap.AtomicLevel the Manager shares with
\* its core.
New(opts) ==
    LET a   == ApplyOptions(DefaultOption, opts)
        opt == a.opt
    IN  IF a.panic
        THEN [outcome |-> "panic", mgr |-> NilManager, err |-> NoErr,
              level |-> opt.level, opt |-> opt]
        ELSE CASE opt.driver = "stdout" ->
                    NewOK(NewCore(EncoderOf(opt), "stdout", opt.encoderConfig), opt)
               [] opt.driver = "file" -> NewFileDriver(opt)
               [] OTHER -> NewUnknownDriver(opt)


(***************************************************************************)
(* The program's state.                                                    *)
(*   opts   the option list of the most recent call of New                 *)
(*   res    what that call produced (New)                                  *)
(*   level  the value held by the zap.AtomicLevel New creates              *)
(*   out    the bytes at os.Stdout, os.Stderr and the rotating file, as a  *)
(*          sequence of chunks; one line is a body chunk and an eol chunk  *)
(*   sink   the health of the core's sink: "ok", "nosync" (writes succeed, *)
(*          Sync fails) or "broken" (writes and Sync fail)                 *)
(*   proc   "running", "panicked" or "exited"                              *)
(*   last   the most recent step, its inputs and what it returned          *)
(*   force  history: the threshold the caller has asked for, that is the   *)
(*          argument of the most recent SetLevel, or the level the options *)
(*          name while SetLevel was never called                           *)
(*   th     the concurrent callers: where each is in its leveled call, the *)
(*          call's arguments and locals                                    *)
(*   hist   history: written, the values ever stored in the AtomicLevel,   *)
(*          and admitted, the calls whose record was handed to the sink    *)
(*   now    the local wall-clock time, in hours since the zero time        *)
(*   hs     the handles, zap loggers, that Named and With have returned    *)
(*   cell   the atomic.Int32 that a CallerSkip value and its copies point  *)
(*          to; not allocated until NewCallerSkip has run                  *)
(***************************************************************************)
VARIABLES opts, res, level, out, sink, proc, last, force, th, hist, now, hs, cell

vars == <<opts, res, level, out, sink, proc, last, force, th, hist, now, hs, cell>>

(***************************************************************************)
(* CallerSkip: a struct holding a pointer to an atomic.Int32.              *)
(* A Go int is 64 bits wide here and is kept as its two 32-bit words:      *)
(* GoInt(h, l) is h * 2^32 + (l mod 2^32), with h and l both written as    *)
(* signed 32-bit numbers.  An int32 is one such number.                    *)
(***************************************************************************)
GoInt(h, l) == [hi |-> h, lo |-> l]

\* int32(skip): the conversion keeps the low word and drops the high one
Int32OfInt(n) == n.lo

\* int(v) of an int32: sign extension
IntOfInt32(v) == GoInt(IF v < 0 THEN -1 ELSE 0, v)

\* the atomic.Int32 before new(atomic.Int32) has run, and the one it returns
NoCell == [alloc |-> FALSE, v |-> 0]
NewCell == [alloc |-> TRUE, v |-> 0]

\* c.skip.Store(x) and c.skip.Load(): one atomic step each on the whole word
Store(c, x) == [c EXCEPT !.v = x]
LoadCell(c) == c.v

(***************************************************************************)
(* Contexts: what ctx.Value(TraceIDKey) holds.                             *)
(***************************************************************************)
CtxNone == [type |-> "none", s |-> ""]
CtxString(v) == [type |-> "string", s |-> v]
CtxInt == [type |-> "int", s |-> "42"]
TraceIDs == {"abc123"}
Contexts == {CtxNone, CtxString(""), CtxInt} \cup {CtxString(v) : v \in TraceIDs}
Msgs == {"msg"}

String(key, val) == [key |-> key, val |-> val]

\* traceID, ok := ctx.Value(TraceIDKey).(string)
getTraceIDFromContext(ctx) == IF ctx.type = "string" THEN ctx.s ELSE ""

\* mutant of LoggerWith: the fields are dropped
LoggerWithNothing(logger, fields) == logger

\* (*zap.Logger).With: a clone with the fields appended
LoggerWith(logger, fields) == [logger EXCEPT !.fields = @ \o fields]

\* mutant of LoggerNamed: the segment replaces the prior namespace
LoggerNamedReplaces(logger, name) == [logger EXCEPT !.name = <<name>>]

\* (*zap.Logger).Named: a clone with the segment appended to the name (the
\* segments are joined by "." when a record is encoded); the logger itself
\* for an empty segment
LoggerNamed(logger, name) ==
    IF name = "" THEN logger ELSE [logger EXCEPT !.name = @ \o <<name>>]

\* mutant of getLoggerWithTraceID: the trace id of an earlier call stays
\* bound to the logger
getLoggerWithBoundTraceID(m, ctx) ==
    LoggerWith(m.Zap, <<String("TraceID", "abc123")>>)

\* mutant of getLoggerWithTraceID: the empty trace id is not left out
getLoggerAlwaysTraceID(m, ctx) ==
    LoggerWith(m.Zap, <<String("TraceID", getTraceIDFromContext(ctx))>>)

getLoggerWithTraceID(m, ctx) ==
    LET traceID == getTraceIDFromContext(ctx)
    IN  IF traceID = "" THEN m.Zap
        ELSE LoggerWith(m.Zap, <<String("TraceID", traceID)>>)

(***************************************************************************)
(* The Zap pipeline behind logger.Info(msg, fields...) and its siblings:   *)
(* Logger.check, ioCore.Check, CheckedEntry.Write, ioCore.Write.           *)
(***************************************************************************)
\* mutant of Enabled: the threshold itself is not enabled
EnabledAbove(lvl, l) == lvl > l

\* zap.AtomicLevel.Enabled with the loaded value l
Enabled(lvl, l) == lvl >= l

\* mutant of LoadLevel: the core holds a copy of the level it was built with
LoadLevelAtBuild(core, l) == res.opt.level

\* the level the core's enabler loads: the value l of the AtomicLevel New
\* shares with the core, or the core's own fixed level
LoadLevel(core, l) == IF core.enab = "atomic" THEN l ELSE LevelOfName(core.enab)

\* Logger.check returns nil before building the entry
CheckSkips(lvl, l) == lvl < DPanicLevel /\ ~Enabled(lvl, l)

\* ioCore.Check adds the core when the level is enabled
CoreAdmits(lvl, l) == Enabled(lvl, l)

\* mutant of AfterWrite: an entry at Error or above panics after its write
AfterWriteErrorPanics(lvl) == IF lvl >= ErrorLevel THEN "panic" ELSE "return"

\* the hook Logger.check attaches: WriteThenPanic, WriteThenFatal
AfterWrite(lvl) ==
    CASE lvl = PanicLevel -> "panic"
      [] lvl = FatalLevel -> "exit"
      [] OTHER -> "return"

\* mutant of CapitalLevelEncoder: the level in lower case
LowercaseLevelEncoder(lvl) ==
    CASE lvl = DebugLevel  -> "debug"
      [] lvl = InfoLevel   -> "info"
      [] lvl = WarnLevel   -> "warn"
      [] lvl = ErrorLevel  -> "error"
      [] lvl = DPanicLevel -> "dpanic"
      [] lvl = PanicLevel  -> "panic"
      [] lvl = FatalLevel  -> "fatal"

\* zapcore.CapitalLevelEncoder, the EncodeLevel of DefaultEncoderConfig
CapitalLevelEncoder(lvl) ==
    CASE lvl = DebugLevel  -> "DEBUG"
      [] lvl = InfoLevel   -> "INFO"
      [] lvl = WarnLevel   -> "WARN"
      [] lvl = ErrorLevel  -> "ERROR"
      [] lvl = DPanicLevel -> "DPANIC"
      [] lvl = PanicLevel  -> "PANIC"
      [] lvl = FatalLevel  -> "FATAL"

\* mutant of Entry: the stack trace is taken above the stacktrace level only
EntryStackAbove(logger, lvl, msg) ==
    [level |-> lvl, msg |-> msg, name |-> logger.name,
     stack |-> lvl > logger.addStack]

Entry(logger, lvl, msg) ==
    [level |-> lvl, msg |-> msg, name |-> logger.name,
     stack |-> lvl >= logger.addStack]

\* EncodeEntry: the line ioCore.Write hands to the sink in one Write call
Encode(logger, ent, fields, by) ==
    << [part |-> "body", by |-> by, enc |-> logger.core.enc, ent |-> ent,
        L |-> CapitalLevelEncoder(ent.level), M |-> ent.msg,
        fields |-> logger.fields \o fields],
       [part |-> "eol", by |-> by] >>

\* the line CheckedEntry.Write prints to ErrorOutput when a core's Write fails
WriteError(by) == << [part |-> "werr", by |-> by], [part |-> "eol", by |-> by] >>

\* mutant of WriteStep: the sink takes one chunk at a time
WriteStepChunk(buf) == 1

\* how many chunks of buf one Write call on the sink appends before another
\* writer may run: os.File and rotatelogs hold their lock for the whole buffer
WriteStep(buf) == Len(buf)

\* time.Truncate(rotationTime) of the wall-clock time t, both in hours
Truncate(t, d) == t - (t % d)

\* mutant of genFilename: the file is named when it is first opened and kept
genFilenameFixed(hook, t) ==
    [prefix |-> hook.pattern.prefix, day |-> 0, suffix |-> hook.pattern.suffix]

\* the file the rotating sink writes to at time t: the pattern formatted with
\* the time truncated to the rotation time; %Y-%m-%d gives the day of it
genFilename(hook, t) ==
    [prefix |-> hook.pattern.prefix,
     day    |-> Truncate(t, hook.rotationTime) \div 24,
     suffix |-> hook.pattern.suffix]

\* the chunks as the core's sink stores them: the rotating sink appends each
\* to the file it writes to at time t
SinkChunks(core, buf, t) ==
    IF core.out = "file"
    THEN [i \in 1..Len(buf) |-> buf[i] @@ [file |-> genFilename(core.hook, t)]]
    ELSE buf

\* the streams after the core's sink took the first n chunks of buf
SinkAppend(o, dest, buf, n) == [o EXCEPT ![dest] = @ \o SubSeq(buf, 1, n)]

Room ==
    Len(out.stdout) + Len(out.stderr) + Len(out.file) + Len(out.observed)
        < 2 * MaxLog

Main == [t |-> 0, k |-> 0]

\* the record of an operation: op its name, sev and ctx a leveled call's
\* severity and context, arg the argument of SetLevel (for Sync: 1 for a
\* first Sync, 2 for one that follows a Sync), n the number of chunks at the
\* core's sink before the call, sinks the sinks the operation wrote to or
\* flushed, err the error it returned
Last(op, sev, ctx, arg, n, sinks, err) ==
    [op |-> op, sev |-> sev, ctx |-> ctx, arg |-> arg, n |-> n,
     sinks |-> sinks, err |-> err]

OpName(lvl) ==
    CASE lvl = DebugLevel -> "Debug"
      [] lvl = InfoLevel  -> "Info"
      [] lvl = WarnLevel  -> "Warn"
      [] lvl = ErrorLevel -> "Error"
      [] lvl = PanicLevel -> "Panic"
      [] lvl = FatalLevel -> "Fatal"

Usable == proc = "running" /\ res.mgr # NilManager

\* logger.Debug(msg, fields...) .. logger.Fatal(msg, fields...) of a
\* *zap.Logger, start to end, by a single caller; via is 0 for a call through
\* the Manager and the number of the handle otherwise
Emit(logger, lvl, ctx, msg, fields, via) ==
    LET skip   == CheckSkips(lvl, LoadLevel(logger.core, level))
        write  == ~skip /\ CoreAdmits(lvl, LoadLevel(logger.core, level))
        buf    == Encode(logger, Entry(logger, lvl, msg), fields, Main)
    IN  /\ Usable
        /\ Room
        /\ out' = IF ~write THEN out
                  ELSE IF sink = "broken"
                       THEN SinkAppend(out, logger.errorOutput, WriteError(Main), 2)
                       ELSE SinkAppend(out, logger.core.out,
                                       SinkChunks(logger.core, buf, now), WriteStep(buf))
        /\ proc' = IF skip THEN proc
                   ELSE CASE AfterWrite(lvl) = "panic" -> "panicked"
                          [] AfterWrite(lvl) = "exit"  -> "exited"
                          [] OTHER -> proc
        /\ last' = Last(OpName(lvl), lvl, ctx, 0, Len(out[logger.core.out]),
                         IF write THEN <<logger.core.out>> ELSE <<>>, NoErr)
                        @@ [msg |-> msg, fields |-> fields, via |-> via]
        /\ UNCHANGED <<opts, res, level, sink, force, th, hist, now, hs, cell>>

\* One leveled call of the Manager.
Log(lvl, ctx, msg, fields) ==
    Emit(getLoggerWithTraceID(res.mgr, ctx), lvl, ctx, msg, fields, 0)

Debug(ctx, msg, fields) == Log(DebugLevel, ctx, msg, fields)
Info(ctx, msg, fields) == Log(InfoLevel, ctx, msg, fields)
Warn(ctx, msg, fields) == Log(WarnLevel, ctx, msg, fields)
Error(ctx, msg, fields) == Log(ErrorLevel, ctx, msg, fields)
Panic(ctx, msg, fields) == Log(PanicLevel, ctx, msg, fields)
Fatal(ctx, msg, fields) == Log(FatalLevel, ctx, msg, fields)

\* mutant of StoreLevel: a store that is not atomic leaves a value between
\* the old and the new one
StoreLevelTorn(old, new) == IF old = new THEN new ELSE (old + new) \div 2

\* mutant of StoreLevel: the threshold is only ever raised
StoreLevelRaises(old, new) == IF new > old THEN new ELSE old

\* m.level.SetLevel(level): one atomic store through the pointer of the
\* AtomicLevel; through a nil pointer the store panics
StoreLevel(old, new) == new

SetLevel(lvl) ==
    /\ Usable
    /\ IF res.mgr.level = "nil"
       THEN proc' = "panicked" /\ level' = level
       ELSE proc' = proc /\ level' = StoreLevel(level, lvl)
    /\ force' = lvl
    /\ last' = Last("SetLevel", 0, CtxNone, lvl, 0, <<>>, NoErr)
    /\ UNCHANGED <<opts, res, out, sink, th, hist, now, hs, cell>>

\* mutant of SinkSync: the flush of stdout fails whatever its health
SinkSyncStdoutFails(dest, health) ==
    IF dest = "stdout" THEN [msg |-> "sync failed", arg |-> dest] ELSE NoErr

\* out.Sync() of the core's sink: os.Stdout.Sync() is an fsync; the rotating
\* file is wrapped by zapcore.AddSync, whose Sync does nothing
SinkSync(dest, health) ==
    IF dest = "stdout" /\ health # "ok"
    THEN [msg |-> "sync failed", arg |-> dest]
    ELSE NoErr

\* the sinks Logger.Sync flushes: the one sink of the Manager's core
SyncSinks(m) == <<m.Zap.core.out>>

\* mutant of SyncResult: the error of the flush is dropped
SyncResultDropped(m, health) == NoErr

\* m.Zap.Sync(): the error of the core's Sync, returned as it is
SyncResult(m, health) == SinkSync(m.Zap.core.out, health)

Sync ==
    /\ Usable
    /\ last' = Last("Sync", 0, CtxNone, IF last.op = "Sync" THEN 2 ELSE 1, 0,
                     SyncSinks(res.mgr), SyncResult(res.mgr, sink))
    /\ UNCHANGED <<opts, res, level, out, sink, proc, force, th, hist, now, hs, cell>>

\* m.Named(name): the handle m.Zap.Named(name)
Named(name) ==
    /\ Usable
    /\ Len(hs) < MaxHandles
    /\ hs' = Append(hs, LoggerNamed(res.mgr.Zap, name))
    /\ last' = Last("Named", 0, CtxNone, 0, 0, <<>>, NoErr) @@ [name |-> name]
    /\ UNCHANGED <<opts, res, level, out, sink, proc, force, th, hist, now, cell>>

\* m.With(fields...): the handle m.Zap.With(fields...)
With(fields) ==
    /\ Usable
    /\ Len(hs) < MaxHandles
    /\ hs' = Append(hs, LoggerWith(res.mgr.Zap, fields))
    /\ last' = Last("With", 0, CtxNone, 0, 0, <<>>, NoErr) @@ [fields |-> fields]
    /\ UNCHANGED <<opts, res, level, out, sink, proc, force, th, hist, now, cell>>

\* a leveled call on handle i, which is a *zap.Logger and takes no context
HandleLog(i, lvl, msg, fields) ==
    /\ i \in 1..Len(hs)
    /\ Emit(hs[i], lvl, CtxNone, msg, fields, i)

\* the program stores handle i in the exported field, once: m.Zap = handle
AssignZap(i) ==
    /\ Usable
    /\ i \in 1..Len(hs)
    /\ res.mgr.Zap = New(opts).mgr.Zap
    /\ res.mgr.Zap # hs[i]
    /\ res' = [res EXCEPT !.mgr.Zap = hs[i]]
    /\ last' = Last("AssignZap", 0, CtxNone, i, 0, <<>>, NoErr)
    /\ UNCHANGED <<opts, level, out, sink, proc, force, th, hist, now, hs, cell>>

\* the environment: the sink's health changes
SinkFault(h) ==
    /\ proc = "running"
    /\ sink # h
    /\ sink' = h
    /\ last' = Last("SinkFault", 0, CtxNone, 0, 0, <<>>, NoErr)
    /\ UNCHANGED <<opts, res, level, out, proc, force, th, hist, now, hs, cell>>

\* the environment: the wall clock advances by h hours
Tick(h) ==
    /\ proc = "running"
    /\ now + h <= MaxHours
    /\ now' = now + h
    /\ last' = Last("Tick", 0, CtxNone, 0, 0, <<>>, NoErr)
    /\ UNCHANGED <<opts, res, level, out, sink, proc, force, th, hist, hs, cell>>

\* the streams before anything is written
NoStreams == [stdout |-> <<>>, stderr |-> <<>>, file |-> <<>>, observed |-> <<>>]

\* the option lists the Managers in use were built with
InitOptions ==
    {<<>>,
     <<WithDriver("file"), WithLogPath("/tmp/test-log-"), WithLevel("debug")>>}

CallFields == {<<>>}

\* the level the options name: that of the last WithLevel, info without one
NamedLevel(o) ==
    LET at == {i \in 1..Len(o) : o[i].k = "level" /\ o[i].s \in LevelNames}
    IN  IF at = {} THEN InfoLevel
        ELSE LevelOfName(o[CHOOSE i \in at : \A j \in at : j <= i].s)

(***************************************************************************)
(* Concurrent callers.  A caller is idle or inside one leveled call:       *)
(*   pc    "idle", "check" (before Logger.check loads the level), "core"   *)
(*         (before ioCore.Check loads it again), "write" (inside           *)
(*         ioCore.Write, with buf still to be written) or "after" (in      *)
(*         CheckedEntry.Write, before the hook of a Panic or Fatal entry)  *)
(*   k     the number of calls the caller has started                      *)
(*   lvl, ctx, msg, fields  the arguments of the call it is in             *)
(*   start, raced  history: the threshold asked for when the call started, *)
(*         and whether SetLevel ran before the call had passed the gate    *)
(***************************************************************************)
Threads == {1, 2}

Idle ==
    [pc |-> "idle", k |-> 0, lvl |-> InfoLevel, ctx |-> CtxNone, msg |-> "",
     fields |-> <<>>, buf |-> <<>>, start |-> InfoLevel, raced |-> FALSE]

NoHist == [written |-> {}, admitted |-> {}]

CallId(t) == [t |-> t, k |-> th[t].k]

\* the caller after its call has returned
Returned(t) == [Idle EXCEPT !.k = th[t].k]

\* a caller enters Debug, Info, Warn or Error
CallStart(t, lvl, ctx, msg, fields) ==
    /\ Usable
    /\ th[t].pc = "idle"
    /\ th[t].k < MaxCalls
    /\ th' = [th EXCEPT ![t] =
                 [pc |-> "check", k |-> @.k + 1, lvl |-> lvl, ctx |-> ctx,
                  msg |-> msg, fields |-> fields, buf |-> <<>>,
                  start |-> force, raced |-> FALSE]]
    /\ UNCHANGED <<opts, res, level, out, sink, proc, last, force, hist, now, hs, cell>>

\* mutant of AfterCheck: the hook of a Panic or Fatal entry runs before the
\* cores are written
AfterCheckHookFirst(lvl, admits) ==
    IF AfterWrite(lvl) # "return" THEN "after"
    ELSE IF admits THEN "write" ELSE "idle"

\* mutant of AfterCheck: an entry the gate does not admit is dropped with
\* its hook
AfterCheckGated(lvl, admits) == IF admits THEN "write" ELSE "idle"

\* where a call goes after ioCore.Check: CheckedEntry.Write writes the cores
\* that were added first; an entry without a core still has its hook
AfterCheck(lvl, admits) ==
    IF admits THEN "write"
    ELSE IF AfterWrite(lvl) # "return" THEN "after" ELSE "idle"

\* where a call goes after ioCore.Write: to the hook, or back to its caller
AfterCoreWrite(lvl) == IF AfterWrite(lvl) # "return" THEN "after" ELSE "idle"

\* Logger.check: the first load of the level
LoggerCheck(t) ==
    /\ proc = "running"
    /\ th[t].pc = "check"
    /\ th' = [th EXCEPT ![t] = IF CheckSkips(th[t].lvl, level)
                               THEN Returned(t)
                               ELSE [@ EXCEPT !.pc = "core"]]
    /\ UNCHANGED <<opts, res, level, out, sink, proc, last, force, hist, now, hs, cell>>

\* ioCore.Check: the second load of the level; an admitted entry is encoded
CoreCheck(t) ==
    LET logger == getLoggerWithTraceID(res.mgr, th[t].ctx)
        admits == CoreAdmits(th[t].lvl, level)
        buf    == Encode(logger, Entry(logger, th[t].lvl, th[t].msg),
                         th[t].fields, CallId(t))
        pc     == AfterCheck(th[t].lvl, admits)
    IN  /\ proc = "running"
        /\ th[t].pc = "core"
        /\ th' = [th EXCEPT ![t] =
                     IF pc = "idle" THEN Returned(t)
                     ELSE [@ EXCEPT !.pc = pc,
                                    !.buf = IF admits THEN buf ELSE <<>>]]
        /\ hist' = IF admits
                   THEN [hist EXCEPT !.admitted =
                            @ \cup {[by |-> CallId(t), lvl |-> th[t].lvl]}]
                   ELSE hist
        /\ UNCHANGED <<opts, res, level, out, sink, proc, last, force, now, hs, cell>>

\* ioCore.Write: c.out.Write(buf.Bytes()); the sink takes WriteStep chunks
\* before another writer may run
CoreWrite(t) ==
    LET n == WriteStep(th[t].buf)
    IN  /\ proc = "running"
        /\ th[t].pc = "write"
        /\ out' = SinkAppend(out, res.mgr.Zap.core.out,
                             SinkChunks(res.mgr.Zap.core, th[t].buf, now), n)
        /\ th' = [th EXCEPT ![t] =
                     IF n < Len(th[t].buf)
                     THEN [@ EXCEPT !.buf = SubSeq(@, n + 1, Len(@))]
                     ELSE IF AfterCoreWrite(th[t].lvl) = "idle" THEN Returned(t)
                     ELSE [@ EXCEPT !.pc = "after", !.buf = <<>>]]
        /\ UNCHANGED <<opts, res, level, sink, proc, last, force, hist, now, hs, cell>>

\* the hook of the entry: WriteThenPanic panics, WriteThenFatal calls
\* os.Exit(1); the call does not return to its caller
AfterHook(t) ==
    /\ proc = "running"
    /\ th[t].pc = "after"
    /\ proc' = IF AfterWrite(th[t].lvl) = "panic" THEN "panicked" ELSE "exited"
    /\ UNCHANGED <<opts, res, level, out, sink, last, force, th, hist, now, hs, cell>>

\* SetLevel called while other callers are inside their calls
ConcSetLevel(lvl) ==
    /\ Usable
    /\ level' = StoreLevel(level, lvl)
    /\ force' = lvl
    /\ hist' = [hist EXCEPT !.written = @ \cup {lvl}]
    /\ th' = [t \in Threads |->
                 IF th[t].pc \in {"check", "core"}
                 THEN [th[t] EXCEPT !.raced = TRUE] ELSE th[t]]
    /\ UNCHANGED <<opts, res, out, sink, proc, last, now, hs, cell>>

ConcSeverities == {InfoLevel, ErrorLevel}
ConcLevels == {ErrorLevel, FatalLevel}
ConcContexts == {CtxNone}

InitConc ==
    /\ opts \in InitOptions
    /\ res = New(opts)
    /\ level = res.level
    /\ out = NoStreams
    /\ sink = "ok"
    /\ proc = "running"
    /\ last = Last("New", 0, CtxNone, 0, 0, <<>>, res.err)
    /\ force = NamedLevel(opts)
    /\ th = [t \in Threads |-> Idle]
    /\ hist = [written |-> {res.level}, admitted |-> {}]
    /\ now = 0
    /\ hs = <<>>
    /\ cell = NoCell

NextConc ==
    \/ \E t \in Threads, l \in ConcSeverities, c \in ConcContexts, m \in Msgs,
          f \in CallFields : CallStart(t, l, c, m, f)
    \/ \E t \in Threads : LoggerCheck(t)
    \/ \E t \in Threads : CoreCheck(t)
    \/ \E t \in Threads : CoreWrite(t)
    \/ \E l \in ConcLevels : ConcSetLevel(l)

SpecConc == InitConc /\ [][NextConc]_vars

(***************************************************************************)
(* Concurrent callers of Error, Panic and Fatal, step by step up to the    *)
(* hook that ends the process.                                             *)
(***************************************************************************)
TermSeverities == {ErrorLevel, PanicLevel, FatalLevel}
\* zapcore.InvalidLevel, the level above Fatal that SetLevel accepts
InvalidLevel == FatalLevel + 1
TermOptions == InitOptions \cup {<<WithLevel("fatal")>>}

InitTerm ==
    /\ opts \in TermOptions
    /\ res = New(opts)
    /\ level = res.level
    /\ out = NoStreams
    /\ sink = "ok"
    /\ proc = "running"
    /\ last = Last("New", 0, CtxNone, 0, 0, <<>>, res.err)
    /\ force = NamedLevel(opts)
    /\ th = [t \in Threads |-> Idle]
    /\ hist = [written |-> {res.level}, admitted |-> {}]
    /\ now = 0
    /\ hs = <<>>
    /\ cell = NoCell

NextTerm ==
    \/ \E t \in Threads, l \in TermSeverities, c \in ConcContexts, m \in Msgs,
          f \in CallFields : CallStart(t, l, c, m, f)
    \/ \E t \in Threads : LoggerCheck(t)
    \/ \E t \in Threads : CoreCheck(t)
    \/ \E t \in Threads : CoreWrite(t)
    \/ \E t \in Threads : AfterHook(t)
    \/ ConcSetLevel(InvalidLevel)

SpecTerm == InitTerm /\ [][NextTerm]_vars

\* every caller that is inside a call takes its next step in the end
SpecTermFair ==
    /\ SpecTerm
    /\ \A t \in Threads :
           WF_vars(LoggerCheck(t) \/ CoreCheck(t) \/ CoreWrite(t) \/ AfterHook(t))

(***************************************************************************)
(* Concurrent callers whose contexts hold different trace ids.             *)
(***************************************************************************)
TraceContexts == {CtxNone, CtxString("abc123"), CtxString("xyz789")}

InitTrace ==
    /\ opts = <<>>
    /\ res = New(opts)
    /\ level = res.level
    /\ out = NoStreams
    /\ sink = "ok"
    /\ proc = "running"
    /\ last = Last("New", 0, CtxNone, 0, 0, <<>>, res.err)
    /\ force = NamedLevel(opts)
    /\ th = [t \in Threads |-> Idle]
    /\ hist = [written |-> {res.level}, admitted |-> {}]
    /\ now = 0
    /\ hs = <<>>
    /\ cell = NoCell

NextTrace ==
    \/ \E t \in Threads, c \in TraceContexts, m \in Msgs, f \in CallFields :
          CallStart(t, InfoLevel, c, m, f)
    \/ \E t \in Threads : LoggerCheck(t)
    \/ \E t \in Threads : CoreCheck(t)
    \/ \E t \in Threads : CoreWrite(t)

SpecTrace == InitTrace /\ [][NextTrace]_vars

(***************************************************************************)
(* The file driver over time: leveled calls while the wall clock advances. *)
(***************************************************************************)
FileOptions ==
    {<<WithDriver("file"), WithLogPath("/tmp/test-log-")>> \o r :
        r \in {<<>>, <<WithRotationTime(1)>>, <<WithRotationTime(48)>>}}

InitFile ==
    /\ opts \in FileOptions
    /\ res = New(opts)
    /\ level = res.level
    /\ out = NoStreams
    /\ sink = "ok"
    /\ proc = "running"
    /\ last = Last("New", 0, CtxNone, 0, 0, <<>>, res.err)
    /\ force = NamedLevel(opts)
    /\ th = [t \in Threads |-> Idle]
    /\ hist = NoHist
    /\ now = 0
    /\ hs = <<>>
    /\ cell = NoCell

NextFile ==
    \/ \E c \in Contexts, m \in Msgs, f \in CallFields : Debug(c, m, f)
    \/ \E c \in Contexts, m \in Msgs, f \in CallFields : Info(c, m, f)
    \/ \E c \in Contexts, m \in Msgs, f \in CallFields : Error(c, m, f)
    \/ \E h \in {12, 24} : Tick(h)

SpecFile == InitFile /\ [][NextFile]_vars

(***************************************************************************)
(* The records: leveled calls through the Manager and through the handles  *)
(* that Named and With return.                                             *)
(***************************************************************************)
RecOptions ==
    {<<>>,
     <<WithDriver("file"), WithLogPath("/tmp/test-log-"), WithColor(TRUE)>>,
     <<WithStacktraceLevel("error"), WithLevel("debug")>>}
RecMsgs == {"This is an info message", "msg"}
RecFields == {<<String("key", "value")>>}
RecNames == {"test", ""}
HandleSeverities == {DebugLevel, ErrorLevel}

\* the streams of this specification hold one line less than MaxLog
RecRoom == Len(out.stdout) + Len(out.stderr) + Len(out.file) < 2 * (MaxLog - 1)

InitRec ==
    /\ opts \in RecOptions
    /\ res = New(opts)
    /\ level = res.level
    /\ out = NoStreams
    /\ sink = "ok"
    /\ proc = "running"
    /\ last = Last("New", 0, CtxNone, 0, 0, <<>>, res.err)
    /\ force = NamedLevel(opts)
    /\ th = [t \in Threads |-> Idle]
    /\ hist = NoHist
    /\ now = 0
    /\ hs = <<>>
    /\ cell = NoCell

NextRec ==
    \/ \E m \in Msgs : RecRoom /\ Debug(CtxNone, m, <<>>)
    \/ \E m \in RecMsgs : RecRoom /\ Info(CtxNone, m, <<>>)
    \/ \E m \in Msgs : RecRoom /\ Warn(CtxNone, m, <<>>)
    \/ \E m \in Msgs : RecRoom /\ Error(CtxNone, m, <<>>)
    \/ \E m \in Msgs : RecRoom /\ Panic(CtxNone, m, <<>>)
    \/ \E m \in Msgs : RecRoom /\ Fatal(CtxNone, m, <<>>)
    \/ \E i \in 1..MaxHandles, l \in HandleSeverities, m \in Msgs,
          f \in RecFields \cup CallFields : RecRoom /\ HandleLog(i, l, m, f)
    \/ \E n \in RecNames : Named(n)
    \/ \E f \in RecFields : With(f)
    \/ \E i \in 1..MaxHandles : AssignZap(i)

SpecRec == InitRec /\ [][NextRec]_vars

(***************************************************************************)
(* The gate of the handles: SetLevel between calls on the handles that     *)
(* Named and With returned.                                                *)
(***************************************************************************)
GateLevels == {DebugLevel, WarnLevel, FatalLevel}

InitGate ==
    /\ opts = <<>>
    /\ res = New(opts)
    /\ level = res.level
    /\ out = NoStreams
    /\ sink = "ok"
    /\ proc = "running"
    /\ last = Last("New", 0, CtxNone, 0, 0, <<>>, res.err)
    /\ force = NamedLevel(opts)
    /\ th = [t \in Threads |-> Idle]
    /\ hist = NoHist
    /\ now = 0
    /\ hs = <<>>
    /\ cell = NoCell

NextGate ==
    \/ \E n \in RecNames : Named(n)
    \/ \E f \in RecFields : With(f)
    \/ \E i \in 1..MaxHandles, l \in {DebugLevel, InfoLevel, ErrorLevel},
          m \in Msgs, f \in CallFields : HandleLog(i, l, m, f)
    \/ \E m \in Msgs, f \in CallFields : Info(CtxNone, m, f)
    \/ \E l \in GateLevels : SetLevel(l)

SpecGate == InitGate /\ [][NextGate]_vars

(***************************************************************************)
(* A Manager assembled around a Zap logger, without New.                   *)
(***************************************************************************)
ObserverLevels == {"warn", "info"}

\* what the program holds after  core, _ := observer.New(lvl)  and
\* &Manager{Zap: zap.New(core)}
Built(lvl) ==
    [outcome |-> "assembled",
     mgr     |-> Assembled(ObserverNew(lvl)),
     err     |-> NoErr,
     level   |-> LevelOfName(lvl),
     opt     |-> DefaultOption]

InitBare ==
    /\ opts = <<>>
    /\ \E n \in ObserverLevels : res = Built(n)
    /\ level = res.level
    /\ out = NoStreams
    /\ sink = "ok"
    /\ proc = "running"
    /\ last = Last("none", 0, CtxNone, 0, 0, <<>>, NoErr)
    /\ force = res.level
    /\ th = [t \in Threads |-> Idle]
    /\ hist = NoHist
    /\ now = 0
    /\ hs = <<>>
    /\ cell = NoCell

NextBare ==
    \/ \E c \in Contexts, m \in Msgs, f \in CallFields : Debug(c, m, f)
    \/ \E c \in Contexts, m \in Msgs, f \in CallFields : Info(c, m, f)
    \/ \E c \in Contexts, m \in Msgs, f \in CallFields : Warn(c, m, f)
    \/ \E c \in Contexts, m \in Msgs, f \in CallFields : Error(c, m, f)
    \/ \E l \in Levels : SetLevel(l)

SpecBare == InitBare /\ [][NextBare]_vars

(***************************************************************************)
(* Construction: New called with every option list up to MaxOpts.          *)
(***************************************************************************)
DriverNames == {"stdout", "file", "invalid"}
LogPaths == {"/tmp/test-log-"} \cup BadLogPaths
Options ==
    {WithDriver(d) : d \in DriverNames}
    \cup {WithLevel(n) : n \in LevelNames \cup {"bogus"}}
    \cup {WithStacktraceLevel(n) : n \in {"error", "bogus"}}
    \cup {WithLogPath(p) : p \in LogPaths}
    \cup {WithColor(b) : b \in BOOLEAN}
    \cup {WithCallerSkip(2), WithMaxAge(720), WithRotationTime(1),
          WithEncoderConfig("custom")}

RECURSIVE OptionLists(_)
OptionLists(n) ==
    IF n = 0 THEN {<<>>}
    ELSE OptionLists(n - 1)
         \cup {Append(l, f) : l \in {x \in OptionLists(n - 1) : Len(x) = n - 1},
                              f \in Options}

NotBuilt == [outcome |-> "none", mgr |-> NilManager, err |-> NoErr,
             level |-> defaultLevel, opt |-> DefaultOption]

InitNew ==
    /\ opts = <<>>
    /\ res = NotBuilt
    /\ level = defaultLevel
    /\ out = NoStreams
    /\ sink = "ok"
    /\ proc = "running"
    /\ last = Last("none", 0, CtxNone, 0, 0, <<>>, NoErr)
    /\ force = defaultLevel
    /\ th = [t \in Threads |-> Idle]
    /\ hist = NoHist
    /\ now = 0
    /\ hs = <<>>
    /\ cell = NoCell

NewCall(o) ==
    LET r == New(o)
    IN  /\ res.outcome = "none"
        /\ opts' = o
        /\ res' = r
        /\ level' = r.level
        /\ proc' = IF r.outcome = "panic" THEN "panicked" ELSE proc
        /\ last' = Last("New", 0, CtxNone, 0, 0, <<>>, r.err)
        /\ force' = NamedLevel(o)
        /\ UNCHANGED <<out, sink, th, hist, now, hs, cell>>

NextNew == \E o \in OptionLists(MaxOpts) : NewCall(o)

SpecNew == InitNew /\ [][NextNew]_vars

(***************************************************************************)
(* CallerSkip: one value made by NewCallerSkip, copied, and used through   *)
(* its copies by several callers.  A copy of the struct copies the         *)
(* pointer, so every copy's Set and Load act on the one cell.              *)
(***************************************************************************)
\* 1, 2, -1, -2, 2^32 - 1 and 2^32 + 1
SkipArgs == {GoInt(0, 1), GoInt(0, 2), GoInt(-1, -1), GoInt(-1, -2),
             GoInt(0, -1), GoInt(1, 1)}
Copies == {1, 2}

\* last for the CallerSkip calls: arg is the argument of the most recent
\* Set (NewCallerSkip calls Set), ret what the most recent Load returned
SkipCall(op, t, k, arg, ret) ==
    [op |-> op, by |-> t, copy |-> k, arg |-> arg, ret |-> ret]

InitSkip ==
    /\ opts = <<>>
    /\ res = NotBuilt
    /\ level = defaultLevel
    /\ out = NoStreams
    /\ sink = "ok"
    /\ proc = "running"
    /\ last = SkipCall("none", 0, 0, GoInt(0, 0), GoInt(0, 0))
    /\ force = defaultLevel
    /\ th = [t \in Threads |-> Idle]
    /\ hist = NoHist
    /\ now = 0
    /\ hs = <<>>
    /\ cell = NoCell

NewCallerSkip(skip) ==
    /\ ~cell.alloc
    /\ cell' = Store(NewCell, Int32OfInt(skip))
    /\ last' = SkipCall("NewCallerSkip", 0, 1, skip, last.ret)
    /\ UNCHANGED <<opts, res, level, out, sink, proc, force, th, hist, now, hs>>

\* c.Set(skip) on copy k by caller t
Set(t, k, skip) ==
    /\ cell.alloc
    /\ cell' = Store(cell, Int32OfInt(skip))
    /\ last' = SkipCall("Set", t, k, skip, last.ret)
    /\ UNCHANGED <<opts, res, level, out, sink, proc, force, th, hist, now, hs>>

\* c.Load() on copy k by caller t
Load(t, k) ==
    /\ cell.alloc
    /\ last' = SkipCall("Load", t, k, last.arg, IntOfInt32(LoadCell(cell)))
    /\ UNCHANGED <<opts, res, level, out, sink, proc, force, th, hist, now, hs, cell>>

NextSkip ==
    \/ \E n \in SkipArgs : NewCallerSkip(n)
    \/ \E t \in Threads, k \in Copies, n \in SkipArgs : Set(t, k, n)
    \/ \E t \in Threads, k \in Copies : Load(t, k)

SpecSkip == InitSkip /\ [][NextSkip]_vars

(***************************************************************************)
(* Use of a Manager that New returned, by a single caller.                 *)
(***************************************************************************)
Init ==
    /\ opts \in InitOptions
    /\ res = New(opts)
    /\ level = res.level
    /\ out = NoStreams
    /\ sink = "ok"
    /\ proc = "running"
    /\ last = Last("New", 0, CtxNone, 0, 0, <<>>, res.err)
    /\ force = NamedLevel(opts)
    /\ th = [t \in Threads |-> Idle]
    /\ hist = NoHist
    /\ now = 0
    /\ hs = <<>>
    /\ cell = NoCell

Next ==
    \/ \E c \in Contexts, m \in Msgs, f \in CallFields : Debug(c, m, f)
    \/ \E c \in Contexts, m \in Msgs, f \in CallFields : Info(c, m, f)
    \/ \E c \in Contexts, m \in Msgs, f \in CallFields : Warn(c, m, f)
    \/ \E c \in Contexts, m \in Msgs, f \in CallFields : Error(c, m, f)
    \/ \E c \in Contexts, m \in Msgs, f \in CallFields : Panic(c, m, f)
    \/ \E c \in Contexts, m \in Msgs, f \in CallFields : Fatal(c, m, f)
    \/ \E l \in Levels : SetLevel(l)
    \/ Sync
    \/ \E h \in {"ok", "nosync", "broken"} : SinkFault(h)

Spec == Init /\ [][Next]_vars


(***************************************************************************)
(* Properties.                                                             *)
(***************************************************************************)
LeveledOps == {"Debug", "Info", "Warn", "Error"}
CallOps == LeveledOps \cup {"Panic", "Fatal"}

\* the sink of the Manager's core, and what it holds
Dest == res.mgr.Zap.core.out
Stream == out[Dest]
\* the body of the last line at the sink
LastBody == Stream[Len(Stream) - 1]
\* the last call appended one line to the sink
Appended == Len(Stream) = last.n + 2 /\ LastBody.part = "body"

\* the driver the options name: that of the last WithDriver, stdout without one
NamedDriver(o) ==
    LET at == {i \in 1..Len(o) : o[i].k = "driver"}
    IN  IF at = {} THEN "stdout" ELSE o[CHOOSE i \in at : \A j \in at : j <= i].s

\* the log path the options name
NamedPath(o) ==
    LET at == {i \in 1..Len(o) : o[i].k = "logPath"}
    IN  IF at = {} THEN "" ELSE o[CHOOSE i \in at : \A j \in at : j <= i].s

\* some option carries a level name outside debug .. fatal
BadLevelName(o) ==
    \E i \in 1..Len(o) : o[i].k \in {"level", "stacktraceLevel"} /\ o[i].s \notin LevelNames

TraceFields(fs) == SelectSeq(fs, LAMBDA f : f.key = "TraceID")

\* C1: a Debug, Info, Warn or Error call hands its record to the sink if and
\* only if its severity is at least the threshold in force (the argument of
\* the most recent SetLevel, or the level the options name when SetLevel was
\* never called); the record is then the last line at the sink, and the sink
\* is left as it was otherwise.
C1_LevelGate ==
    last.op \in LeveledOps =>
        /\ (last.sinks = <<Dest>>) <=> (last.sev >= force)
        /\ (last.sev >= force /\ sink # "broken") =>
               Appended /\ LastBody.ent.level = last.sev
        /\ last.sev < force => Len(Stream) = last.n /\ last.sinks = <<>>

\* C1 witness: after a record was written and the threshold raised by
\* SetLevel, an Info call is suppressed.
C1_Witness ==
    /\ last.op = "Info"
    /\ force = WarnLevel
    /\ res.opt.level = InfoLevel
    /\ Len(out.stdout) = 2
    /\ out.stdout[1].ent.level = InfoLevel

\* C2: a leveled call (Debug .. Fatal) emits under the gate alone, whatever
\* its context holds, and the record it emits carries TraceID=T exactly when
\* the context holds a non-empty string T under trace_id, and no TraceID
\* field otherwise; Debug .. Error return to the caller.
C2_TraceEnrichment ==
    last.op \in CallOps =>
        /\ (last.sinks # <<>>) <=> (last.sev >= force)
        /\ (last.sinks # <<>> /\ sink # "broken") =>
               /\ Appended
               /\ TraceFields(LastBody.fields) =
                      IF last.ctx.type = "string" /\ last.ctx.s # ""
                      THEN <<String("TraceID", last.ctx.s)>>
                      ELSE <<>>
        /\ last.op \in LeveledOps => proc = "running"

\* C2 witness: a record with TraceID=abc123 is followed by a record of a call
\* whose context holds a non-string value, which has no TraceID field.
C2_Witness ==
    /\ last.op = "Warn"
    /\ last.ctx = CtxInt
    /\ Len(out.stdout) = 4
    /\ out.stdout[1].fields = <<String("TraceID", "abc123")>>
    /\ out.stdout[3].fields = <<>>

\* C3 as stated: New with a driver name other than stdout and file returns
\* the unknown driver error and no Manager, whatever the other options are.
C3_Original ==
    (res.outcome # "none" /\ NamedDriver(opts) \notin {"stdout", "file"}) =>
        /\ res.outcome = "returned"
        /\ res.err.msg = "unknown driver"
        /\ res.mgr = NilManager

\* C3 amended: New with a driver name other than stdout and file returns the
\* unknown driver error and no Manager, whatever the other options are,
\* unless an option carries an invalid level name: New then panics before it
\* looks at the driver, and produces no Manager either.
C3_UnknownDriver ==
    (res.outcome # "none" /\ NamedDriver(opts) \notin {"stdout", "file"}) =>
        IF BadLevelName(opts)
        THEN res.outcome = "panic" /\ res.mgr = NilManager
        ELSE /\ res.outcome = "returned"
             /\ res.err = [msg |-> "unknown driver", arg |-> NamedDriver(opts)]
             /\ res.mgr = NilManager

\* C3 witness: the unknown driver error, with another valid option given.
C3_Witness ==
    /\ opts = <<WithDriver("invalid"), WithLevel("debug")>>
    /\ res.outcome = "returned"
    /\ res.err.msg = "unknown driver"
    /\ res.mgr = NilManager

C5_StdoutSplit ==
    (last.op \in CallOps /\ res.opt.driver = "stdout" /\ last.sinks # <<>>) =>
        last.sinks = <<IF last.sev < ErrorLevel THEN "stdout" ELSE "stderr">>

\* C8: after SetLevel(L) the threshold reads L, and at any time the threshold
\* is the argument of the last SetLevel (the level the options name before
\* the first one).
C8_SetLevelReads ==
    /\ last.op = "SetLevel" => level = last.arg
    /\ level = force

\* C8 witness: SetLevel(Fatal) after a record was written under another
\* threshold.
C8_Witness ==
    /\ last.op = "SetLevel"
    /\ last.arg = FatalLevel
    /\ level = FatalLevel
    /\ res.opt.level = InfoLevel
    /\ Len(out.stdout) = 2

\* C9: with a healthy stdout sink Sync returns no error, after any calls and
\* however often it is called; a Sync call does not panic and changes
\* nothing of what was written.
C9_SyncRepeatable ==
    /\ [](last.op = "Sync" =>
            /\ proc = "running"
            /\ (Dest = "stdout" /\ sink = "ok") => last.err = NoErr)
    /\ [][last'.op = "Sync" => out' = out /\ proc' = proc /\ level' = level]_vars

\* C9 witness: a second Sync in a row, after a record was written, returns
\* no error.
C9_Witness ==
    /\ last.op = "Sync"
    /\ last.arg = 2
    /\ last.err = NoErr
    /\ Dest = "stdout"
    /\ Len(out.stdout) = 2

C6_LosslessLines ==
    LET s == Stream
        n == Len(s) \div 2
    IN  /\ Len(s) % 2 = 0
        /\ \A i \in 1..n :
               /\ s[2 * i - 1].part = "body"
               /\ s[2 * i].part = "eol"
               /\ s[2 * i].by = s[2 * i - 1].by
               /\ [by |-> s[2 * i - 1].by, lvl |-> s[2 * i - 1].ent.level]
                      \in hist.admitted
        /\ \A i, j \in 1..n : i # j => s[2 * i - 1].by # s[2 * j - 1].by
        /\ n + Cardinality({t \in Threads : th[t].pc = "write"})
               = Cardinality(hist.admitted)
        /\ ((\A t \in Threads : th[t].pc = "idle" /\ th[t].k = MaxCalls)
                /\ Cardinality(hist.admitted) = Cardinality(Threads) * MaxCalls) =>
               n = Cardinality(Threads) * MaxCalls

\* C6 witness: both callers are inside ioCore.Write at once, each with an
\* admitted record, after the sink has taken a line of each of them.
C6_Witness ==
    /\ th[1].pc = "write"
    /\ th[2].pc = "write"
    /\ Len(Stream) = 4
    /\ Stream[1].by.t # Stream[3].by.t

\* C7: the threshold a gate decision loads is always the initial level or
\* the argument of a SetLevel call made so far, and a call that no SetLevel
\* overlaps is admitted if and only if its severity is at least the threshold
\* asked for when it started (the argument of the last SetLevel before it).
C7_AtomicSetLevel ==
    /\ [](level \in hist.written)
    /\ [][\A t \in Threads :
            (/\ th[t].pc \in {"check", "core"}
             /\ th'[t].pc \notin {"check", "core"}
             /\ ~th[t].raced) =>
                ((th'[t].pc = "write") <=> (th[t].lvl >= th[t].start))]_vars

\* C7 witness: a call that started after SetLevel(Error) returned is admitted
\* under Error while the call of the other caller, which started under Info,
\* was overtaken by that SetLevel.
C7_Witness ==
    /\ th[1].pc = "write"
    /\ th[1].start = ErrorLevel
    /\ ~th[1].raced
    /\ th[2].pc = "core"
    /\ th[2].start = InfoLevel
    /\ th[2].raced
    /\ level = ErrorLevel
    /\ hist.written = {InfoLevel, ErrorLevel}

\* the record of call c of caller t is a whole line at the sink
AtSink(by) ==
    \E i \in 1..(Len(Stream) \div 2) :
        Stream[2 * i - 1].by = by /\ Stream[2 * i].by = by

\* C11: the process is ended by the hook of a Panic or Fatal call only, by a
\* panic for Panic and by os.Exit(1) for Fatal; when the gate admitted the
\* call its record is a whole line at the sink before the hook runs; and a
\* Panic or Fatal call never returns to its caller.
C11_WriteThenTerminate ==
    /\ [][(proc = "running" /\ proc' # "running") =>
            \E t \in Threads :
                /\ th[t].pc = "after"
                /\ th[t].lvl \in {PanicLevel, FatalLevel}
                /\ proc' = IF th[t].lvl = PanicLevel THEN "panicked" ELSE "exited"
                /\ [by |-> CallId(t), lvl |-> th[t].lvl] \in hist.admitted =>
                       AtSink(CallId(t))]_vars
    /\ [][\A t \in Threads :
            (th[t].pc # "idle" /\ th[t].lvl \in {PanicLevel, FatalLevel}) =>
                th'[t].pc # "idle"]_vars

\* C11 witness: the process has exited in the hook of a Fatal call whose
\* record is at the sink, while the other caller was inside a call.
C11_Witness ==
    /\ proc = "exited"
    /\ th[1].pc = "after"
    /\ th[1].lvl = FatalLevel
    /\ [by |-> CallId(1), lvl |-> FatalLevel] \in hist.admitted
    /\ AtSink(CallId(1))
    /\ th[2].pc = "write"

\* the error output of the Manager's logger, and the last line it holds
ErrStream == out[res.mgr.Zap.errorOutput]

\* C12: a Debug, Info, Warn or Error call returns to its caller: the process
\* keeps running and nothing is returned or raised, whatever the health of
\* the sink; when the write of an admitted record fails the sink gains
\* nothing, the failure is printed to the error output, and the Manager, its
\* threshold and the process are as before, ready for the next call.
C12_NoErrorToCaller ==
    /\ [](last.op \in LeveledOps =>
            /\ proc = "running"
            /\ Usable
            /\ last.err = NoErr
            /\ (sink = "broken" /\ last.sev >= force) =>
                   /\ Len(Stream) = last.n
                   /\ Len(ErrStream) >= 2
                   /\ ErrStream[Len(ErrStream) - 1].part = "werr")
    /\ [][last'.op \in LeveledOps =>
            proc' = proc /\ res' = res /\ level' = level /\ sink' = sink]_vars

\* C12 witness: an Info call writes its record after an earlier call's write
\* had failed and the sink had recovered.
C12_Witness ==
    /\ last.op = "Info"
    /\ sink = "ok"
    /\ Dest = "stdout"
    /\ Len(out.stderr) = 2
    /\ out.stderr[1].part = "werr"
    /\ Len(out.stdout) = 2
    /\ out.stdout[1].ent.level = InfoLevel

\* C13: when an option carries a level name outside debug .. fatal, New
\* panics while it applies the options and no Manager comes out of the call;
\* New panics in no other case.
C13_InvalidLevelAborts ==
    res.outcome # "none" =>
        /\ BadLevelName(opts) =>
               res.outcome = "panic" /\ res.mgr = NilManager /\ proc = "panicked"
        /\ res.outcome = "panic" => BadLevelName(opts)

\* C13 witness: New panics on an invalid stacktrace level name that follows
\* a valid option.
C13_Witness ==
    /\ opts = <<WithDriver("file"), WithStacktraceLevel("bogus")>>
    /\ res.outcome = "panic"
    /\ res.mgr = NilManager
    /\ proc = "panicked"

\* the value an option carries for its setting
OptValue(f) ==
    CASE f.k \in {"driver", "logPath", "encoderConfig"} -> f.s
      [] f.k \in {"level", "stacktraceLevel"} -> LevelOfName(f.s)
      [] f.k \in {"callerSkip", "maxAge", "rotationTime"} -> f.n
      [] f.k = "useColor" -> f.b

\* the value the options name for setting k: that of the last option for k,
\* or the default d
NamedOr(o, k, d) ==
    LET at == {i \in 1..Len(o) : o[i].k = k}
    IN  IF at = {} THEN d ELSE OptValue(o[CHOOSE i \in at : \A j \in at : j <= i])

\* C14: New builds its Manager from driver stdout, level info, callerSkip 1,
\* maxAge 7 days, rotationTime 24 hours, useColor false and stacktraceLevel
\* DPanic, each replaced by the value of the last option given for it and by
\* nothing else; the Manager New returns runs with these settings.
C14_Defaults ==
    res.outcome = "returned" =>
        /\ res.opt.driver = NamedOr(opts, "driver", "stdout")
        /\ res.opt.level = NamedOr(opts, "level", InfoLevel)
        /\ res.opt.callerSkip = NamedOr(opts, "callerSkip", 1)
        /\ res.opt.maxAge = NamedOr(opts, "maxAge", 7 * 24)
        /\ res.opt.rotationTime = NamedOr(opts, "rotationTime", 24)
        /\ res.opt.useColor = NamedOr(opts, "useColor", FALSE)
        /\ res.opt.stacktraceLevel = NamedOr(opts, "stacktraceLevel", DPanicLevel)
        /\ res.opt.logPath = NamedOr(opts, "logPath", "")
        /\ res.mgr # NilManager =>
               /\ res.mgr.Zap.core.out = res.opt.driver
               /\ level = res.opt.level
               /\ res.mgr.Zap.callerSkip = res.opt.callerSkip
               /\ res.mgr.Zap.addStack = res.opt.stacktraceLevel
               /\ res.mgr.Zap.core.enc = IF res.opt.useColor THEN "console" ELSE "json"
               /\ res.opt.driver = "file" =>
                      /\ res.mgr.Zap.core.hook.maxAge = res.opt.maxAge
                      /\ res.mgr.Zap.core.hook.rotationTime = res.opt.rotationTime
                      /\ res.mgr.Zap.core.hook.pattern.prefix = res.opt.logPath

\* C14 witness: New with the file driver and one more option returns a
\* Manager whose other settings are the defaults.
C14_Witness ==
    /\ opts = <<WithDriver("file"), WithMaxAge(720)>>
    /\ res.outcome = "returned"
    /\ res.mgr.Zap.core.hook.maxAge = 720
    /\ res.mgr.Zap.core.hook.rotationTime = 24
    /\ level = InfoLevel
    /\ res.mgr.Zap.addStack = DPanicLevel

\* the file named P, the date of the day d, ".log"
DatedFile(P, d) == [prefix |-> P, day |-> d, suffix |-> ".log"]

\* the day the wall clock shows
Today == now \div 24

\* the last call's record went to the rotating file f and nowhere else
WroteToFile(f) ==
    /\ Appended
    /\ LastBody.file = f
    /\ Stream[Len(Stream)].file = f
    /\ out.stdout = <<>>
    /\ out.stderr = <<>>

\* C15 as stated: with the file driver and log path P a record the gate
\* admits is written to the file named P, the current local date and ".log",
\* on whatever day the call is made.
C15_Original ==
    (last.op \in CallOps /\ res.opt.driver = "file") =>
        /\ (last.sinks = <<"file">>) <=> (last.sev >= force)
        /\ last.sev >= force => WroteToFile(DatedFile(NamedPath(opts), Today))

\* C15 amended: the same, for a rotation time of 24 hours (the default) or a
\* divisor of 24 hours; with another rotation time the file is named for a
\* date that is not after the current one.
C15_DatedFile ==
    (last.op \in CallOps /\ res.opt.driver = "file") =>
        /\ (last.sinks = <<"file">>) <=> (last.sev >= force)
        /\ last.sev >= force =>
               IF 24 % res.opt.rotationTime = 0
               THEN WroteToFile(DatedFile(NamedPath(opts), Today))
               ELSE \E d \in 0..Today : WroteToFile(DatedFile(NamedPath(opts), d))

\* C15 witness: with the default rotation time a record written on the next
\* day went to the file of that day, after a record in the file of the day
\* before.
C15_Witness ==
    /\ last.op = "Info"
    /\ res.opt.rotationTime = 24
    /\ Today = 1
    /\ Len(out.file) = 4
    /\ out.file[1].file = DatedFile("/tmp/test-log-", 0)
    /\ out.file[3].file = DatedFile("/tmp/test-log-", 1)

\* the last call was a leveled call whose record is the last line at the sink
Wrote == last.op \in CallOps /\ last.sinks # <<>> /\ Appended

\* the options with every WithColor(true) replaced by WithColor(false)
WithoutColor(o) ==
    [i \in 1..Len(o) |-> IF o[i].k = "useColor" THEN WithColor(FALSE) ELSE o[i]]

\* the line a Manager m writes for the last call
LineOf(m) ==
    LET logger == getLoggerWithTraceID(m, last.ctx)
    IN  SinkChunks(logger.core,
                   Encode(logger, Entry(logger, last.sev, last.msg), last.fields, Main),
                   now)

\* C16 as stated: with the file driver a Manager built with useColor true
\* writes, for a call, the line that the Manager built from the same options
\* with useColor false writes for it.
C16_ColorNoOp ==
    (Wrote /\ last.via = 0 /\ res.opt.driver = "file"
         /\ res.mgr.Zap = New(opts).mgr.Zap) =>
        <<LastBody, Stream[Len(Stream)]>> = LineOf(New(WithoutColor(opts)).mgr)

\* the level a record of the method carries
LevelText(op) ==
    CASE op = "Debug" -> "DEBUG"
      [] op = "Info"  -> "INFO"
      [] op = "Warn"  -> "WARN"
      [] op = "Error" -> "ERROR"
      [] op = "Panic" -> "PANIC"
      [] op = "Fatal" -> "FATAL"

BoundFields == IF last.via = 0 THEN res.mgr.Zap.fields ELSE hs[last.via].fields

\* C18: With(fields) returns a new handle that holds the Manager's fields
\* followed by the given ones, and changes neither the Manager nor a handle
\* obtained earlier; a record carries the fields bound to the logger of its
\* call, then the fields of the call, and no others.
C18_WithFields ==
    /\ [](Wrote => LastBody.fields = BoundFields \o last.fields)
    /\ [][last'.op = "With" =>
            /\ Len(hs') = Len(hs) + 1
            /\ hs'[Len(hs')].fields = res.mgr.Zap.fields \o last'.fields
            /\ res' = res /\ out' = out /\ level' = level]_vars
    /\ [][Len(hs') >= Len(hs) /\ \A i \in 1..Len(hs) : hs'[i] = hs[i]]_vars

\* C18 witness: a record written through the handle of With carries the
\* field, while the handle obtained before it has none.
C18_Witness ==
    /\ Len(hs) = 2
    /\ hs[1].fields = <<>>
    /\ Wrote
    /\ last.via = 2
    /\ LastBody.fields = <<String("key", "value")>>
    /\ res.mgr.Zap.fields = <<>>

\* the namespace prior with the segment name appended
Join(prior, name) == IF name = "" THEN prior ELSE prior \o <<name>>

\* C19: Named(name) returns a new handle that is the Manager's logger with
\* the segment appended to its namespace and nothing else changed, and
\* changes neither the Manager nor a handle obtained earlier; a call on a
\* handle is written if and only if its severity is at least the threshold,
\* to the Manager's sink, under the handle's namespace.
C19_NamedAttribution ==
    /\ [][last'.op = "Named" =>
            /\ Len(hs') = Len(hs) + 1
            /\ hs'[Len(hs')] =
                   [res.mgr.Zap EXCEPT !.name = Join(res.mgr.Zap.name, last'.name)]
            /\ res' = res /\ out' = out /\ level' = level]_vars
    /\ [][Len(hs') >= Len(hs) /\ \A i \in 1..Len(hs) : hs'[i].name = hs[i].name]_vars
    /\ []((last.op \in CallOps /\ last.via # 0) =>
            /\ (last.sinks = <<Dest>>) <=> (last.sev >= force)
            /\ last.sinks # <<>> =>
                   Appended /\ LastBody.ent.name = hs[last.via].name)

\* C19 witness: a record written through a handle named under a Manager
\* whose logger already had a name.
C19_Witness ==
    /\ Len(hs) = 2
    /\ res.mgr.Zap.name = <<"test">>
    /\ hs[2].name = <<"test", "test">>
    /\ Wrote
    /\ last.via = 2
    /\ LastBody.ent.name = <<"test", "test">>

OwnTrace(ctx) ==
    IF ctx.type = "string" /\ ctx.s # "" THEN <<String("TraceID", ctx.s)>> ELSE <<>>

\* C21: no step of a leveled call changes the Manager, its logger or the
\* fields bound to it; the line a caller's write adds to the sink is the
\* record of that caller's own call and carries TraceID=T exactly when the
\* context of that call holds the non-empty string T, whatever the calls
\* before it and the calls running beside it hold; lines at the sink are
\* never changed afterwards.
C21_NoTraceLeak ==
    /\ [][res' = res]_vars
    /\ [](res.mgr.Zap.fields = <<>>)
    /\ [][\A t \in Threads :
            (th[t].pc = "write" /\ th'[t].pc # "write") =>
                LET s == out'[Dest]
                IN  /\ Len(s) = Len(Stream) + 2
                    /\ s[Len(s) - 1].by = CallId(t)
                    /\ TraceFields(s[Len(s) - 1].fields) = OwnTrace(th[t].ctx)
                    /\ s[Len(s) - 1].fields = OwnTrace(th[t].ctx) \o th[t].fields]_vars
    /\ [][SubSeq(out'[Dest], 1, Len(Stream)) = Stream]_vars

\* C21 witness: after records with the trace ids of two callers, a record of
\* a call without a trace id carries no TraceID field.
C21_Witness ==
    /\ Len(Stream) = 6
    /\ Stream[1].by.t = 1
    /\ Stream[1].fields = <<String("TraceID", "abc123")>>
    /\ Stream[3].by.t = 2
    /\ Stream[3].fields = <<String("TraceID", "xyz789")>>
    /\ Stream[5].by.t = 1
    /\ Stream[5].fields = <<>>

\* C22: a call at severity s on a handle that Named or With returned is
\* written, to the Manager's sink, if and only if s is at least the threshold
\* in force, which is the argument of the Manager's most recent SetLevel,
\* whenever the handle was obtained; SetLevel leaves the handles as they are.
C22_HandlesShareGate ==
    /\ []((last.op \in CallOps /\ last.via # 0) =>
            /\ (last.sinks = <<Dest>>) <=> (last.sev >= force)
            /\ last.sev >= force => Appended /\ LastBody.ent.level = last.sev
            /\ last.sev < force => Len(Stream) = last.n)
    /\ [](force = level)
    /\ [][last'.op = "SetLevel" => hs' = hs /\ force' = last'.arg]_vars

\* C22 witness: a handle that wrote an Info record has its Error call
\* suppressed after SetLevel(Fatal), so the handle was obtained before that
\* SetLevel.
C22_Witness ==
    /\ Len(hs) = 1
    /\ hs[1].fields = <<String("key", "value")>>
    /\ Len(Stream) = 2
    /\ Stream[1].fields = <<String("key", "value")>>
    /\ Stream[1].ent.level = InfoLevel
    /\ last.op = "Error"
    /\ last.via = 1
    /\ last.sinks = <<>>
    /\ force = FatalLevel

\* C23: a Panic or Fatal call that has started ends the process (unless
\* the hook of another call ends it first) whatever the threshold is; when
\* the threshold was above the call's severity for the whole call, the hook
\* runs without a record of the call at the sink.
C23_TerminatesRegardless ==
    /\ \A t \in Threads :
           (th[t].pc = "check" /\ th[t].lvl \in {PanicLevel, FatalLevel})
               ~> (proc # "running")
    /\ [][\A t \in Threads :
            (th[t].pc = "core" /\ th[t].lvl \in {PanicLevel, FatalLevel}) =>
                th'[t].pc \in {"core", "write", "after"}]_vars
    /\ [][\A t \in Threads :
            (/\ proc = "running" /\ proc' # "running" /\ th[t].pc = "after"
             /\ ~th[t].raced /\ th[t].lvl < th[t].start) =>
                /\ ~AtSink(CallId(t))
                /\ [by |-> CallId(t), lvl |-> th[t].lvl] \notin hist.admitted]_vars

\* C23 witness: the process has exited in the hook of a Fatal call made
\* under a threshold above Fatal, and nothing was written.
C23_Witness ==
    /\ proc = "exited"
    /\ th[1].pc = "after"
    /\ th[1].lvl = FatalLevel
    /\ th[1].start = InvalidLevel
    /\ ~th[1].raced
    /\ level = InvalidLevel
    /\ Stream = <<>>

\* C24 as stated: SetLevel(L) completes without failure on every Manager,
\* also on one assembled around a Zap logger without New, and the leveled
\* calls after it are written if and only if their severity is at least L.
C24_SetLevelAnyManager ==
    /\ last.op = "SetLevel" => proc = "running"
    /\ last.op \in LeveledOps => ((last.sinks # <<>>) <=> (last.sev >= force))

\* C25 as stated: whatever int was passed to NewCallerSkip or to the most
\* recent Set, through any copy and by any caller, Load returns exactly it.
C25_RoundTrip == last.op = "Load" => last.ret = last.arg

=============================================================================
